---- MODULE Spec2Model ----
(***************************************************************************)
(* Model of src/app1.py: a Flask application over two SQLite tables,       *)
(* courses and favorites.  Text is modelled as sequences of Unicode code   *)
(* points (integers), so that NFKC folding, LIKE matching and BINARY       *)
(* collation are computed on the values the database really compares.      *)
(***************************************************************************)
EXTENDS Integers, Sequences, FiniteSets, TLC

VARIABLES
    courses,      \* rows of table courses (set of records)
    courses_seq,  \* sqlite_sequence entry of courses (AUTOINCREMENT)
    favorites,    \* committed rows of table favorites: [id, course_id]
    fav_seq,      \* sqlite_sequence entry of favorites (AUTOINCREMENT)
    ingested,     \* history: every normalised row handed to INSERT so far
    last,         \* the most recent request: [op, arg, before]
    resp,         \* the response of the most recent request
    pc,           \* per connection: position inside its handler
    req,          \* per connection: the request it is serving
    txn,          \* per connection: favorites rows as seen inside its open transaction
    lock          \* connection holding SQLite's RESERVED lock, 0 when free

vars == <<courses, courses_seq, favorites, fav_seq, ingested, last, resp, pc, req, txn, lock>>

---------------------------------------------------------------------------
(* Bounds *)

MaxCourseSeq == 3
MaxSearchRows == 2
MaxOrderRows == 3
MaxBatch == 2
MaxFavSeq == 3
MaxFavId == 3
MaxQ == 2
MaxIdsLen == 3
MaxConcId == 1
NumConn == 2

---------------------------------------------------------------------------
(* Text *)

\* the empty string
Empty == <<>>

\* SQL NULL in a TEXT column (pandas NaN bound as NULL)
NULL == <<-1>>

\* all strings over alphabet A of length 0..n
RECURSIVE StringsUpTo(_, _)
StringsUpTo(A, n) ==
    IF n = 0 THEN {<<>>}
    ELSE LET shorter == StringsUpTo(A, n - 1)
         IN shorter \cup {Append(s, c) : s \in shorter, c \in A}

\* NFKC of one code point: full-width ASCII variants U+FF01..U+FF5E fold to
\* U+0021..U+007E, the ideographic space U+3000 to U+0020; every other code
\* point the model uses is its own NFKC form.
NFKC(c) ==
    IF c \in 65281..65374 THEN c - 65248
    ELSE IF c = 12288 THEN 32
    ELSE c

\* z2h: unicodedata.normalize("NFKC", s) if s else s
z2h(s) == IF s = Empty \/ s = NULL THEN s ELSE [i \in 1..Len(s) |-> NFKC(s[i])]

\* str.isspace for the code points the model uses
IsSpace(c) == c \in {32, 12288}

\* str.strip(): drop leading and trailing whitespace
RECURSIVE strip(_)
strip(s) ==
    IF s = Empty THEN s
    ELSE IF IsSpace(Head(s)) THEN strip(Tail(s))
    ELSE IF IsSpace(s[Len(s)]) THEN strip(SubSeq(s, 1, Len(s) - 1))
    ELSE s

\* str.replace(old, "-") for a one-character old
replace(s, old) == [i \in 1..Len(s) |-> IF s[i] = old THEN 45 ELSE s[i]]

\* sqlite3Toupper: LIKE folds case for ASCII letters only
Upper(c) == IF c \in 97..122 THEN c - 32 ELSE c

\* SQLite's patternCompare for LIKE without ESCAPE: '%' (37) matches any run of
\* characters, '_' (95) exactly one, everything else compares ASCII-case-blind.
RECURSIVE Like(_, _)
Like(pat, s) ==
    IF pat = Empty THEN s = Empty
    ELSE IF Head(pat) = 37
         THEN \E k \in 0..Len(s) : Like(Tail(pat), SubSeq(s, k + 1, Len(s)))
    ELSE IF s = Empty THEN FALSE
    ELSE IF Head(pat) = 95 THEN Like(Tail(pat), Tail(s))
    ELSE Upper(Head(pat)) = Upper(Head(s)) /\ Like(Tail(pat), Tail(s))

\* BINARY collation (memcmp of UTF-8 = code point order): -1, 0 or 1
RECURSIVE Collate(_, _)
Collate(a, b) ==
    IF a = Empty /\ b = Empty THEN 0
    ELSE IF a = Empty THEN -1
    ELSE IF b = Empty THEN 1
    ELSE IF Head(a) < Head(b) THEN -1
    ELSE IF Head(a) > Head(b) THEN 1
    ELSE Collate(Tail(a), Tail(b))

---------------------------------------------------------------------------
(* Table courses and its seeding *)

\* one source row of a CSV file, before normalisation
CsvRow(title, code, term, instructor, faculty, slot, eval) ==
    [title |-> title, code |-> code, term |-> term, instructor |-> instructor,
     faculty |-> faculty, slot |-> slot, eval |-> eval]

\* lines 95-96: z2h on six columns; the timetable code is left as read
NormaliseRow(r) ==
    [title |-> z2h(r.title), code |-> r.code, term |-> z2h(r.term),
     instructor |-> z2h(r.instructor), faculty |-> z2h(r.faculty),
     slot |-> z2h(r.slot), eval |-> z2h(r.eval)]

\* the UNIQUE constraint on the timetable code; NULLs never conflict
CodeConflict(rows, r) ==
    r.code # NULL /\ \E c \in rows : c.code = r.code

\* INSERT OR REPLACE in place of INSERT OR IGNORE: the later row wins
InsertCourseReplace(tbl, r) ==
    LET id == tbl.seq + 1
    IN [rows |-> {c \in tbl.rows : r.code = NULL \/ c.code # r.code}
                 \cup {[id |-> id, title |-> r.title, code |-> r.code,
                        term |-> r.term, instructor |-> r.instructor,
                        faculty |-> r.faculty, slot |-> r.slot, eval |-> r.eval]},
        seq |-> id]

\* INSERT OR IGNORE INTO courses: AUTOINCREMENT draws the next rowid before
\* the constraint is checked, so an ignored row still advances the sequence.
InsertCourse(tbl, r) ==
    LET id == tbl.seq + 1
    IN [rows |-> IF CodeConflict(tbl.rows, r) THEN tbl.rows
                 ELSE tbl.rows \cup {[id |-> id, title |-> r.title, code |-> r.code,
                                      term |-> r.term, instructor |-> r.instructor,
                                      faculty |-> r.faculty, slot |-> r.slot,
                                      eval |-> r.eval]},
        seq |-> id]

\* executemany over the rows of the data frames, in file and row order
RECURSIVE InsertCourses(_, _)
InsertCourses(tbl, rs) ==
    IF rs = <<>> THEN tbl
    ELSE InsertCourses(InsertCourse(tbl, Head(rs)), Tail(rs))

\* a response: HTTP status, flashed message, the count inside the message,
\* and the course rows handed to the template
Response(status, flash, count, rows) ==
    [status |-> status, flash |-> flash, count |-> count, rows |-> rows]

NoRequest == [op |-> "none", arg |-> <<>>, before |-> {}]

\* init_db_and_seed on CSV files whose rows, concatenated, are rs (a missing
\* file contributes no rows); max caps the AUTOINCREMENT counter
init_db_and_seed(rs, max) ==
    /\ courses_seq + Len(rs) <= max
    /\ LET norm == [i \in 1..Len(rs) |-> NormaliseRow(rs[i])]
           tbl == InsertCourses([rows |-> courses, seq |-> courses_seq], norm)
       IN /\ courses' = tbl.rows
          /\ courses_seq' = tbl.seq
          /\ ingested' = ingested \o norm
    /\ last' = [op |-> "seed", arg |-> rs, before |-> favorites]
    /\ resp' = Response(200, "", 0, <<>>)
    /\ UNCHANGED <<favorites, fav_seq, pc, req, txn, lock>>

---------------------------------------------------------------------------
(* Table favorites *)

\* the UNIQUE(course_id) constraint
FavConflict(rows, course_id) == \E r \in rows : r.course_id = course_id

\* a plain INSERT into a table without the UNIQUE constraint
InsertFavoriteNoConstraint(tbl, course_id) ==
    [rows |-> tbl.rows \cup {[id |-> tbl.seq + 1, course_id |-> course_id]},
     seq |-> tbl.seq + 1]

\* INSERT OR REPLACE: the conflicting row is deleted and a new one stored
InsertFavoriteReplace(tbl, course_id) ==
    [rows |-> {r \in tbl.rows : r.course_id # course_id}
              \cup {[id |-> tbl.seq + 1, course_id |-> course_id]},
     seq |-> tbl.seq + 1]

\* INSERT OR IGNORE INTO favorites(course_id) VALUES (?)
InsertFavorite(tbl, course_id) ==
    LET id == tbl.seq + 1
    IN [rows |-> IF FavConflict(tbl.rows, course_id) THEN tbl.rows
                 ELSE tbl.rows \cup {[id |-> id, course_id |-> course_id]},
        seq |-> id]

\* executemany("INSERT OR IGNORE INTO favorites ...", [(i,) for i in id_list])
RECURSIVE InsertFavorites(_, _)
InsertFavorites(tbl, id_list) ==
    IF id_list = <<>> THEN tbl
    ELSE InsertFavorites(InsertFavorite(tbl, Head(id_list)), Tail(id_list))

\* DELETE FROM favorites WHERE id=?
DeleteFavoriteByRowId(tbl, course_id) ==
    [rows |-> {r \in tbl.rows : r.id # course_id}, seq |-> tbl.seq]

\* DELETE FROM favorites WHERE course_id=?
DeleteFavorite(tbl, course_id) ==
    [rows |-> {r \in tbl.rows : r.course_id # course_id}, seq |-> tbl.seq]

\* DELETE FROM favorites
DeleteAllFavorites(tbl) == [rows |-> {}, seq |-> tbl.seq]

\* the committed favorites table
FavTable == [rows |-> favorites, seq |-> fav_seq]

---------------------------------------------------------------------------
(* bulk_fav's parsing of the ids form field *)

\* the pieces of s between occurrences of sep: always at least one piece
RECURSIVE SplitOn(_, _)
SplitOn(s, sep) ==
    IF \A i \in 1..Len(s) : s[i] # sep THEN <<s>>
    ELSE LET k == CHOOSE i \in 1..Len(s) : s[i] = sep /\ \A j \in 1..(i - 1) : s[j] # sep
         IN <<SubSeq(s, 1, k - 1)>> \o SplitOn(SubSeq(s, k + 1, Len(s)), sep)

\* ids.split(",")
split(s) == SplitOn(s, 44)

\* Unicode decimal digits (category Nd): ASCII and full-width
IsDecimal(c) == c \in 48..57 \/ c \in 65296..65305

\* characters with Numeric_Type Digit or Decimal: Nd plus the superscripts
\* U+00B2, U+00B3, U+00B9
IsDigitChar(c) == IsDecimal(c) \/ c \in {178, 179, 185}

\* str.isdigit(): non-empty and every character is a digit character
isdigit(x) == x # Empty /\ \A i \in 1..Len(x) : IsDigitChar(x[i])

DigitValue(c) == IF c \in 48..57 THEN c - 48 ELSE c - 65296

RECURSIVE DecimalValue(_)
DecimalValue(x) ==
    IF x = Empty THEN 0
    ELSE 10 * DecimalValue(SubSeq(x, 1, Len(x) - 1)) + DigitValue(x[Len(x)])

\* int(x) accepts surrounding whitespace, one optional sign and decimal digits
\* (underscore separators are outside the model's alphabet)
IntBody(x) == IF x # Empty /\ Head(x) \in {43, 45} THEN Tail(x) ELSE x

IntParses(x) ==
    LET b == IntBody(strip(x))
    IN b # Empty /\ \A i \in 1..Len(b) : IsDecimal(b[i])

\* the value of int(x) when it parses
int(x) ==
    LET t == strip(x)
    IN IF t # Empty /\ Head(t) = 45 THEN 0 - DecimalValue(IntBody(t))
       ELSE DecimalValue(IntBody(t))

\* the tokens the comprehension keeps: those with x.isdigit()
Kept(tokens) == SelectSeq(tokens, isdigit)

\* [int(x) for x in ids.split(",") if x.isdigit()] raises ValueError as soon
\* as a kept token is not accepted by int()
Raises(tokens) == \E i \in 1..Len(tokens) : isdigit(tokens[i]) /\ ~IntParses(tokens[i])

IdList(tokens) == LET k == Kept(tokens) IN [i \in 1..Len(k) |-> int(k[i])]

---------------------------------------------------------------------------
(* Queries *)

\* ORDER BY <term>, <faculty>, <slot>, <title>
OrderKeyTermFirst(c) == <<c.term, c.faculty, c.slot, c.title>>

\* ORDER BY <faculty>, <term>, <slot>, <title>
OrderKey(c) == <<c.faculty, c.term, c.slot, c.title>>

\* comparison of two ORDER BY keys, column by column: -1, 0 or 1
RECURSIVE CompareKeys(_, _)
CompareKeys(k1, k2) ==
    IF k1 = <<>> THEN 0
    ELSE LET d == Collate(Head(k1), Head(k2))
         IN IF d # 0 THEN d ELSE CompareKeys(Tail(k1), Tail(k2))

\* a join row comes before another: smaller key, ties in rowid order
Precedes(a, b) ==
    LET d == CompareKeys(OrderKey(a.c), OrderKey(b.c))
    IN \/ d < 0
       \/ d = 0 /\ a.c.id < b.c.id
       \/ d = 0 /\ a.c.id = b.c.id /\ a.f <= b.f

\* the sorter: result rows of a query, as the sequence of their course parts
RECURSIVE OrderBy(_)
OrderBy(S) ==
    IF S = {} THEN <<>>
    ELSE LET m == CHOOSE a \in S : \A b \in S : Precedes(a, b)
         IN <<m.c>> \o OrderBy(S \ {m})

\* the request parameters after lines 318-327
Params(r) ==
    LET p0 == z2h(strip(r.period))
        p1 == IF p0 # Empty /\ p0[Len(p0)] = 38480 THEN SubSeq(p0, 1, Len(p0) - 1) ELSE p0
    IN [q |-> z2h(strip(r.q)),
        faculty |-> strip(r.faculty),
        term |-> strip(r.term),
        weekday |-> strip(r.weekday),
        period |-> replace(replace(replace(p1, 65293), 8212), 8211)]

\* lines 329-351: the list of WHERE conditions with their bound parameters
Where(p) ==
    (IF p.q # Empty THEN <<[cond |-> "keyword", param |-> <<37>> \o p.q \o <<37>>]>> ELSE <<>>)
    \o (IF p.faculty # Empty THEN <<[cond |-> "faculty", param |-> p.faculty]>> ELSE <<>>)
    \o (IF p.term # Empty THEN <<[cond |-> "term", param |-> p.term]>> ELSE <<>>)
    \o (IF p.weekday # Empty THEN <<[cond |-> "slot", param |-> p.weekday \o <<37>>]>> ELSE <<>>)
    \o (IF p.period # Empty THEN <<[cond |-> "slot", param |-> <<37>> \o p.period \o <<37>>]>> ELSE <<>>)

\* the keyword condition without its third operand
HoldsWithoutEval(w, c) ==
    CASE w.cond = "keyword" -> Like(w.param, c.title) \/ Like(w.param, c.instructor)
      [] w.cond = "faculty" -> c.faculty = w.param
      [] w.cond = "term" -> c.term = w.param
      [] w.cond = "slot" -> Like(w.param, c.slot)

\* one WHERE condition evaluated on a course row
Holds(w, c) ==
    CASE w.cond = "keyword" ->
            Like(w.param, c.title) \/ Like(w.param, c.instructor) \/ Like(w.param, c.eval)
      [] w.cond = "faculty" -> c.faculty = w.param
      [] w.cond = "term" -> c.term = w.param
      [] w.cond = "slot" -> Like(w.param, c.slot)

\* " WHERE " + " OR ".join(where)
SelectedAny(rows, where) ==
    {c \in rows : where = <<>> \/ \E i \in 1..Len(where) : Holds(where[i], c)}

\* " WHERE " + " AND ".join(where)
Selected(rows, where) == {c \in rows : \A i \in 1..Len(where) : Holds(where[i], c)}

\* SELECT * FROM courses [WHERE ...] ORDER BY ...
SelectCourses(rows, r) ==
    OrderBy({[c |-> c, f |-> 0] : c \in Selected(rows, Where(Params(r)))})

\* the join written ON f.id = c.id
JoinFavoritesOnRowId(rows, favs) ==
    OrderBy({[c |-> j[1], f |-> j[2].id] : j \in {k \in rows \X favs : k[2].id = k[1].id}})

\* SELECT c.* FROM courses c JOIN favorites f ON f.course_id = c.id ORDER BY ...
JoinFavorites(rows, favs) ==
    OrderBy({[c |-> j[1], f |-> j[2].id] : j \in {k \in rows \X favs : k[2].course_id = k[1].id}})

---------------------------------------------------------------------------
(* Request handlers, one request at a time *)

\* POST /favorite/<int:course_id>.  The except branch needs a failing store
\* statement; a lone INSERT OR IGNORE on an unlocked database has none.
favorite(course_id) ==
    /\ fav_seq < MaxFavSeq
    /\ LET tbl == InsertFavorite(FavTable, course_id)
       IN /\ favorites' = tbl.rows
          /\ fav_seq' = tbl.seq
    /\ last' = [op |-> "favorite", arg |-> course_id, before |-> favorites]
    /\ resp' = Response(302, "added", 0, <<>>)
    /\ UNCHANGED <<courses, courses_seq, ingested, pc, req, txn, lock>>

\* POST /unfavorite/<int:course_id>
unfavorite(course_id) ==
    /\ LET tbl == DeleteFavorite(FavTable, course_id)
       IN /\ favorites' = tbl.rows
          /\ fav_seq' = tbl.seq
    /\ last' = [op |-> "unfavorite", arg |-> course_id, before |-> favorites]
    /\ resp' = Response(302, "removed", 0, <<>>)
    /\ UNCHANGED <<courses, courses_seq, ingested, pc, req, txn, lock>>

\* bulk_fav reporting the number of rows it inserted
BulkOutcomeCountsInserted(tbl, ids) ==
    LET s == strip(ids)
        tokens == split(s)
        after == InsertFavorites(tbl, IdList(tokens))
    IN IF s = Empty
       THEN [resp |-> Response(302, "none_selected", 0, <<>>), tbl |-> tbl]
       ELSE IF Raises(tokens)
       THEN [resp |-> Response(500, "", 0, <<>>), tbl |-> tbl]
       ELSE [resp |-> Response(302, "bulk_added",
                               Cardinality(after.rows) - Cardinality(tbl.rows), <<>>),
             tbl |-> after]

\* what bulk_fav does with the form field ids: the response and the table
BulkOutcome(tbl, ids) ==
    LET s == strip(ids)
        tokens == split(s)
    IN IF s = Empty
       THEN [resp |-> Response(302, "none_selected", 0, <<>>), tbl |-> tbl]
       ELSE IF Raises(tokens)
       THEN [resp |-> Response(500, "", 0, <<>>), tbl |-> tbl]
       ELSE [resp |-> Response(302, "bulk_added", Len(IdList(tokens)), <<>>),
             tbl |-> InsertFavorites(tbl, IdList(tokens))]

\* POST /bulk-fav
bulk_fav(ids) ==
    LET out == BulkOutcome(FavTable, ids)
    IN /\ out.tbl.seq <= MaxFavSeq
       /\ favorites' = out.tbl.rows
       /\ fav_seq' = out.tbl.seq
       /\ last' = [op |-> "bulk_fav", arg |-> ids, before |-> favorites]
       /\ resp' = out.resp
       /\ UNCHANGED <<courses, courses_seq, ingested, pc, req, txn, lock>>

\* POST /clear-favs
clear_favs ==
    /\ LET tbl == DeleteAllFavorites(FavTable)
       IN /\ favorites' = tbl.rows
          /\ fav_seq' = tbl.seq
    /\ last' = [op |-> "clear_favs", arg |-> 0, before |-> favorites]
    /\ resp' = Response(302, "cleared", 0, <<>>)
    /\ UNCHANGED <<courses, courses_seq, ingested, pc, req, txn, lock>>

\* GET /mypage
mypage ==
    /\ last' = [op |-> "mypage", arg |-> 0, before |-> favorites]
    /\ resp' = Response(200, "", 0, JoinFavorites(courses, favorites))
    /\ UNCHANGED <<courses, courses_seq, favorites, fav_seq, ingested, pc, req, txn, lock>>

\* lines 360-366: each selected course with its is_fav flag
Enriched(rows, favs) ==
    LET fav_ids == {r.course_id : r \in favs}
    IN [i \in 1..Len(rows) |-> [c |-> rows[i], is_fav |-> rows[i].id \in fav_ids]]

\* GET / with query parameters r = [q, faculty, term, weekday, period]
index(r) ==
    /\ last' = [op |-> "index", arg |-> r, before |-> favorites]
    /\ resp' = Response(200, "", 0, Enriched(SelectCourses(courses, r), favorites))
    /\ UNCHANGED <<courses, courses_seq, favorites, fav_seq, ingested, pc, req, txn, lock>>

---------------------------------------------------------------------------
(* Concurrent requests: one connection per request, SQLite's write lock *)

Conns == 1..NumConn

\* number of INSERT statements a request runs
Demand(r) ==
    CASE r.op = "favorite" -> 1
      [] r.op = "bulk_fav" -> BulkOutcome([rows |-> {}, seq |-> 0], r.arg).tbl.seq
      [] OTHER -> 0

RECURSIVE Outstanding(_)
Outstanding(P) ==
    IF P = {} THEN 0
    ELSE LET p == CHOOSE x \in P : TRUE
         IN (IF pc[p] = "handler" THEN Demand(req[p]) ELSE 0) + Outstanding(P \ {p})

\* the sequence value the next writer will read
CurrentSeq == IF lock = 0 THEN fav_seq ELSE txn[lock].seq

\* _before: a request arrives on connection p; executescript(SCHEMA_SQL) finds
\* both tables and changes nothing.  raced records that another connection's
\* transaction was open at that moment.
before_request(p, r) ==
    /\ pc[p] \in {"idle", "done"}
    /\ CurrentSeq + Outstanding(Conns) + Demand(r) <= MaxFavSeq
    /\ pc' = [pc EXCEPT ![p] = "handler"]
    /\ req' = [req EXCEPT ![p] = [op |-> r.op, arg |-> r.arg, raced |-> lock # 0, status |-> 0]]
    /\ UNCHANGED <<courses, courses_seq, favorites, fav_seq, ingested, last, resp, txn, lock>>

\* the first write statement of a handler opens the transaction and takes the
\* RESERVED lock; while another connection holds it the busy handler waits
Execute(p, tbl) ==
    /\ lock = 0
    /\ txn' = [txn EXCEPT ![p] = tbl]
    /\ lock' = p
    /\ pc' = [pc EXCEPT ![p] = "commit"]
    /\ UNCHANGED <<courses, courses_seq, favorites, fav_seq, ingested, last, resp, req>>

\* favorite up to db.execute
favorite_execute(p) ==
    /\ pc[p] = "handler" /\ req[p].op = "favorite"
    /\ Execute(p, InsertFavorite(FavTable, req[p].arg))

\* unfavorite up to db.execute
unfavorite_execute(p) ==
    /\ pc[p] = "handler" /\ req[p].op = "unfavorite"
    /\ Execute(p, DeleteFavorite(FavTable, req[p].arg))

\* clear_favs up to db.execute
clear_favs_execute(p) ==
    /\ pc[p] = "handler" /\ req[p].op = "clear_favs"
    /\ Execute(p, DeleteAllFavorites(FavTable))

\* bulk_fav up to db.executemany: with nothing to insert no transaction opens
bulk_fav_execute(p) ==
    /\ pc[p] = "handler" /\ req[p].op = "bulk_fav"
    /\ LET out == BulkOutcome(FavTable, req[p].arg)
       IN IF out.tbl.seq = fav_seq
          THEN /\ pc' = [pc EXCEPT ![p] = "done"]
               /\ req' = [req EXCEPT ![p].status = out.resp.status]
               /\ UNCHANGED <<courses, courses_seq, favorites, fav_seq, ingested,
                              last, resp, txn, lock>>
          ELSE Execute(p, out.tbl)

\* db.commit() and the redirect that ends the handler; the connection is
\* closed at teardown
commit(p) ==
    /\ pc[p] = "commit" /\ lock = p
    /\ favorites' = txn[p].rows
    /\ fav_seq' = txn[p].seq
    /\ lock' = 0
    /\ txn' = [txn EXCEPT ![p] = [rows |-> {}, seq |-> 0]]
    /\ pc' = [pc EXCEPT ![p] = "done"]
    /\ req' = [req EXCEPT ![p].status = 302]
    /\ UNCHANGED <<courses, courses_seq, ingested, last, resp>>

---------------------------------------------------------------------------
(* Inputs *)

\* sequences over S of length 1..n
RECURSIVE SeqsUpTo(_, _)
SeqsUpTo(S, n) ==
    IF n = 0 THEN {}
    ELSE {<<x>> : x \in S} \cup {Append(s, x) : s \in SeqsUpTo(S, n - 1), x \in S}

\* course ids a favorite request may carry (the route accepts any integer)
FavIds == 1..MaxFavId

\* faculties U+7D4C U+55B6 and U+7D4C U+6E08, terms U+6625 and U+79CB,
\* slots "Mon3-4", "Tue3-4", "Mon1" written with U+6708 and U+706B
Fac1 == <<32076, 21942>>
Fac2 == <<32076, 28168>>
Term1 == <<26149>>
Term2 == <<31179>>
Mon34 == <<26376, 51, 45, 52>>
Tue34 == <<28779, 51, 45, 52>>
Mon1 == <<26376, 49>>

\* source rows that differ in the text columns the keyword reads
TextRows ==
    {CsvRow(t[1], NULL, Term1, t[2], Fac1, Mon34, t[3]) :
        t \in {<<<<97>>, Empty, Empty>>,            \* title "a"
               <<<<65, 98>>, Empty, Empty>>,         \* title "Ab"
               <<<<98>>, <<65313>>, Empty>>,         \* instructor full-width "A"
               <<<<98>>, Empty, <<37, 12510>>>>}}    \* evaluation "%" U+30DE

\* source rows that differ in faculty, term and slot
SlotRows ==
    {CsvRow(<<98>>, NULL, t[1], Empty, t[2], t[3], Empty) :
        t \in {<<Term1, Fac2, Mon34>>, <<Term2, Fac1, Tue34>>, <<Term1, Fac1, Mon1>>,
               <<Term1, Fac1, <<26376, 65299, 65293, 65300>>>>}}   \* full-width "3-4"

SearchPool == TextRows \cup SlotRows

SearchRequest(q, faculty, term, weekday, period) ==
    [q |-> q, faculty |-> faculty, term |-> term, weekday |-> weekday, period |-> period]

NoFilter == SearchRequest(Empty, Empty, Empty, Empty, Empty)

\* keywords: every string over "a", full-width "A", "%", "_", U+30DE, and
\* " a " with blanks around it
Keywords == StringsUpTo({97, 65313, 37, 95, 12510}, MaxQ) \cup {<<32, 97, 32>>}

\* period texts: "3", full-width "3" + U+9650, "3" en-dash "4", U+9650 alone
Periods == {Empty, <<51>>, <<65299, 38480>>, <<51, 8211, 52>>, <<38480>>}

SearchRequests ==
    {SearchRequest(q, Empty, Empty, Empty, Empty) : q \in Keywords}
    \cup {SearchRequest(q, f, t, w, p) :
            q \in {Empty, <<97>>}, f \in {Empty, Fac1}, t \in {Empty, Term1},
            w \in {Empty, <<26376>>, <<28779>>}, p \in Periods}

\* source rows whose sort keys disagree column against column
OrderPool ==
    {CsvRow(t[4], NULL, t[2], Empty, t[1], t[3], Empty) :
        t \in {<<Fac1, Term2, Mon1, <<97>>>>, <<Fac2, Term1, Mon1, <<97>>>>,
               <<Fac1, Term1, Mon34, <<97>>>>, <<Fac1, Term1, Mon1, <<98>>>>,
               <<Fac1, Term1, Mon1, <<97>>>>, <<Fac1, Term1, Mon1, <<97, 65>>>>}}

OrderRequests == {NoFilter, SearchRequest(Empty, Fac1, Empty, Empty, Empty)}

\* source rows with timetable codes "A1", "B1", "" and NULL
SeedPool ==
    {CsvRow(t, c, Term1, Empty, Fac1, Mon1, Empty) :
        t \in {<<97>>, <<98>>}, c \in {<<65, 49>>, <<66, 49>>, Empty, NULL}}

\* a two-row catalog source for the favorites bookkeeping
FavPool == {CsvRow(<<97>>, <<65, 49>>, Term1, Empty, Fac1, Mon1, Empty),
            CsvRow(<<98>>, NULL, Term1, Empty, Fac1, Mon1, Empty)}

\* ids form fields: every string over "1", "2", full-width "1", ",", "a",
\* U+00B2, and the literals "1,2,abc,3", " 1, 2" and "-1,1"
IdsInputs ==
    StringsUpTo({49, 50, 65297, 44, 97, 178}, MaxIdsLen)
    \cup {<<49, 44, 50, 44, 97, 98, 99, 44, 51>>, <<32, 49, 44, 32, 50>>, <<45, 49, 44, 49>>}

\* ids form fields of the bookkeeping runs: "", "2", "1,2", "2,2"
FewIds == {Empty, <<50>>, <<49, 44, 50>>, <<50, 44, 50>>}

\* ids form fields of the ordering runs: "1,2,3" and "3,1"
OrderIds == {<<49, 44, 50, 44, 51>>, <<51, 44, 49>>}

\* the requests that race: add and remove of the ids 1..MaxConcId, a bulk add
\* of "1,2", and clear
ConcRequests ==
    {[op |-> o, arg |-> i] : o \in {"favorite", "unfavorite"}, i \in 1..MaxConcId}
    \cup {[op |-> "bulk_fav", arg |-> <<49, 44, 50>>], [op |-> "clear_favs", arg |-> 0]}

---------------------------------------------------------------------------
(* Specifications *)

Init ==
    /\ courses = {}
    /\ courses_seq = 0
    /\ favorites = {}
    /\ fav_seq = 0
    /\ ingested = <<>>
    /\ last = NoRequest
    /\ resp = Response(0, "", 0, <<>>)
    /\ pc = [p \in Conns |-> "idle"]
    /\ req = [p \in Conns |-> [op |-> "none", arg |-> 0, raced |-> FALSE, status |-> 0]]
    /\ txn = [p \in Conns |-> [rows |-> {}, seq |-> 0]]
    /\ lock = 0

\* favorites bookkeeping, one request at a time
Next ==
    \/ \E rs \in SeqsUpTo(FavPool, MaxBatch) : init_db_and_seed(rs, MaxCourseSeq)
    \/ \E i \in FavIds : favorite(i)
    \/ \E i \in FavIds : unfavorite(i)
    \/ \E ids \in FewIds : bulk_fav(ids)
    \/ clear_favs
    \/ mypage
    \/ index(NoFilter)

Spec == Init /\ [][Next]_vars

\* some adds, then one bulk add over every short ids field
NextBulk ==
    \/ \E i \in FavIds : last.op # "bulk_fav" /\ favorite(i)
    \/ \E ids \in IdsInputs : last.op # "bulk_fav" /\ bulk_fav(ids)

SpecBulk == Init /\ [][NextBulk]_vars

\* seeding runs, and one search of each seeded catalog (a search writes nothing)
NextSearch ==
    \/ \E rs \in SeqsUpTo(SearchPool, MaxBatch) : init_db_and_seed(rs, MaxSearchRows)
    \/ \E r \in SearchRequests : last.op # "index" /\ index(r)

SpecSearch == Init /\ [][NextSearch]_vars

\* ordering of search results and of my page
NextOrder ==
    \/ \E rs \in SeqsUpTo(OrderPool, MaxBatch) : init_db_and_seed(rs, MaxOrderRows)
    \/ \E ids \in OrderIds : bulk_fav(ids)
    \/ mypage
    \/ \E r \in OrderRequests : index(r)

SpecOrder == Init /\ [][NextOrder]_vars

\* seeding runs
NextSeed ==
    \E rs \in SeqsUpTo(SeedPool, MaxBatch) : init_db_and_seed(rs, MaxCourseSeq)

SpecSeed == Init /\ [][NextSeed]_vars

\* concurrent favorites requests
NextConc ==
    \/ \E p \in Conns, r \in ConcRequests : before_request(p, r)
    \/ \E p \in Conns : favorite_execute(p)
    \/ \E p \in Conns : unfavorite_execute(p)
    \/ \E p \in Conns : bulk_fav_execute(p)
    \/ \E p \in Conns : clear_favs_execute(p)
    \/ \E p \in Conns : commit(p)

SpecConc == Init /\ [][NextConc]_vars

---------------------------------------------------------------------------
(* Properties *)

Range(f) == {f[i] : i \in DOMAIN f}

RowsFor(rows, course_id) == {r \in rows : r.course_id = course_id}

OtherRows(rows, course_id) == {r \in rows : r.course_id # course_id}

UniqueCourseIds(rows) == \A r1, r2 \in rows : r1.course_id = r2.course_id => r1 = r2

\* C1: under every interleaving of concurrent add, remove, bulk add and clear
\* requests the favorites table, committed or inside the open transaction,
\* holds at most one row per course id; and once every connection has finished
\* an add of the same course id, none has failed and exactly one row for that
\* id is stored.
C1_OneRowPerCourse ==
    /\ UniqueCourseIds(favorites)
    /\ \A p \in Conns : pc[p] = "commit" => UniqueCourseIds(txn[p].rows)
    /\ \A i \in 1..MaxConcId :
         (\A p \in Conns : pc[p] = "done" /\ req[p].op = "favorite" /\ req[p].arg = i)
            => /\ \A p \in Conns : req[p].status = 302
               /\ Cardinality(RowsFor(favorites, i)) = 1

\* two adds of the same id have both finished, and one of them arrived while
\* the other connection's transaction was open
C1_Witness ==
    /\ \A p \in Conns : pc[p] = "done" /\ req[p].op = "favorite" /\ req[p].arg = 1
    /\ \E p \in Conns : req[p].raced
    /\ Cardinality(RowsFor(favorites, 1)) = 1

\* C2: an add that directly follows an add of the same course id leaves the
\* favorites table as the first add left it, with exactly one row for the id
\* and with the rows of every other course id as they were before the first add.
C2_AddIdempotent ==
    [][(last.op = "favorite" /\ last'.op = "favorite" /\ last'.arg = last.arg)
         => /\ favorites' = favorites
            /\ Cardinality(RowsFor(favorites', last'.arg)) = 1
            /\ OtherRows(favorites', last'.arg) = OtherRows(last.before, last'.arg)]_vars

\* an add of an id that the add before it had already stored, with favorites
\* of other courses present
C2_Witness ==
    /\ last.op = "favorite"
    /\ RowsFor(last.before, last.arg) # {}
    /\ favorites = last.before
    /\ OtherRows(favorites, last.arg) # {}

\* C3: after remove(id) there is no favorite row for id, the rows of every
\* other course id are as before, a remove of an id that was no favorite
\* changes nothing, and the request does not fail.
C3_RemoveExact ==
    last.op = "unfavorite"
        => /\ RowsFor(favorites, last.arg) = {}
           /\ OtherRows(favorites, last.arg) = OtherRows(last.before, last.arg)
           /\ (RowsFor(last.before, last.arg) = {} => favorites = last.before)
           /\ resp.status = 302

\* a remove has deleted a favorite and left another one in place
C3_Witness ==
    /\ last.op = "unfavorite"
    /\ RowsFor(last.before, last.arg) # {}
    /\ favorites # {}

\* a well-formed id token: a non-empty string of decimal digits, ASCII 0-9 or
\* their full-width forms U+FF10..U+FF19
WellFormed(x) ==
    x # Empty /\ \A i \in 1..Len(x) : x[i] \in 48..57 \/ x[i] \in 65296..65305

\* the tokens of the trimmed ids field
TokensOf(ids) == split(strip(ids))

WellFormedValues(ids) ==
    LET t == TokensOf(ids) IN {DecimalValue(t[i]) : i \in {j \in 1..Len(t) : WellFormed(t[j])}}

\* C4: a bulk add never fails, and afterwards the favorite course ids are those
\* from before together with the values of the well-formed tokens.
C4_BulkNeverFails ==
    last.op = "bulk_fav"
        => /\ resp.status # 500
           /\ {r.course_id : r \in favorites}
                = {r.course_id : r \in last.before} \cup WellFormedValues(last.arg)

\* C5: the count a bulk add reports is the number of well-formed tokens of its
\* input, whatever the favorites were and however many rows it inserted; a bulk
\* add of an empty field reports no count and changes nothing.
C5_BulkCount ==
    last.op = "bulk_fav"
        => /\ resp.flash = "bulk_added"
                => resp.count = Len(SelectSeq(TokensOf(last.arg), WellFormed))
           /\ strip(last.arg) = Empty
                => favorites = last.before /\ resp.flash = "none_selected"

\* a bulk add reported a count of two or more that exceeds the rows it inserted
C5_Witness ==
    /\ last.op = "bulk_fav"
    /\ resp.flash = "bulk_added"
    /\ resp.count >= 2
    /\ resp.count > Cardinality(favorites) - Cardinality(last.before)
    /\ last.before # {}

Fields == {"q", "faculty", "term", "weekday", "period"}

CoursesOf(rows) == {rows[i].c : i \in DOMAIN rows}

\* C6: a search with one more field populated returns a subset of what the
\* search without that field returns, and a search with no field populated
\* returns the whole catalog.
C6_FiltersMonotone ==
    last.op = "index"
        => /\ \A f \in Fields :
                last.arg[f] # Empty
                   => CoursesOf(resp.rows)
                        \subseteq Range(SelectCourses(courses, [last.arg EXCEPT ![f] = Empty]))
           /\ (\A f \in Fields : last.arg[f] = Empty) => CoursesOf(resp.rows) = courses

\* a search with two populated fields returned something, and less than the
\* search without one of them
C6_Witness ==
    /\ last.op = "index"
    /\ Cardinality({f \in Fields : last.arg[f] # Empty}) >= 2
    /\ resp.rows # <<>>
    /\ \E f \in Fields :
          /\ last.arg[f] # Empty
          /\ CoursesOf(resp.rows) # Range(SelectCourses(courses, [last.arg EXCEPT ![f] = Empty]))

\* q occurs in s character for character
Contains(s, q) == \E i \in 1..(Len(s) - Len(q) + 1) : SubSeq(s, i, i + Len(q) - 1) = q

\* the courses that pass every filter of the request other than the keyword
PassOtherFilters(r) == Range(SelectCourses(courses, [r EXCEPT !.q = Empty]))

\* C7 as stated: a non-empty keyword selects exactly the courses whose title,
\* instructor or evaluation method contains it literally and case-sensitively.
C7_LiteralKeyword ==
    (last.op = "index" /\ Params(last.arg).q # Empty)
        => LET q == Params(last.arg).q
           IN CoursesOf(resp.rows)
                = {c \in PassOtherFilters(last.arg) :
                      Contains(c.title, q) \/ Contains(c.instructor, q) \/ Contains(c.eval, q)}

\* two characters that differ at most in ASCII letter case
SameLetter(a, b) ==
    \/ a = b
    \/ a \in 65..90 /\ b = a + 32
    \/ a \in 97..122 /\ b = a - 32

\* piece g lies in s from position i on, "_" standing for any one character
OccursAt(g, s, i) ==
    /\ i + Len(g) - 1 <= Len(s)
    /\ \A j \in 1..Len(g) : g[j] = 95 \/ SameLetter(g[j], s[i + j - 1])

\* the pieces of q between its "%" lie in s one after another without overlap
ContainsPattern(s, q) ==
    LET g == SplitOn(q, 37)
    IN \E pos \in [1..Len(g) -> 1..(Len(s) + 1)] :
          /\ \A k \in 1..Len(g) : OccursAt(g[k], s, pos[k])
          /\ \A k \in 1..(Len(g) - 1) : pos[k] + Len(g[k]) <= pos[k + 1]

\* C7 amended: a non-empty keyword selects exactly the courses in which one of
\* the three fields contains it as a LIKE pattern: ASCII letters in either
\* case, "_" as any one character, "%" as any run of characters.
C7_PatternKeyword ==
    (last.op = "index" /\ Params(last.arg).q # Empty)
        => LET q == Params(last.arg).q
           IN CoursesOf(resp.rows)
                = {c \in PassOtherFilters(last.arg) :
                      \/ ContainsPattern(c.title, q)
                      \/ ContainsPattern(c.instructor, q)
                      \/ ContainsPattern(c.eval, q)}

\* a keyword search returned a course that does not contain the keyword
\* literally, and left another course out
C7_Witness ==
    /\ last.op = "index"
    /\ Params(last.arg).q # Empty
    /\ \E c \in CoursesOf(resp.rows) :
          LET q == Params(last.arg).q
          IN ~(Contains(c.title, q) \/ Contains(c.instructor, q) \/ Contains(c.eval, q))
    /\ CoursesOf(resp.rows) # courses

\* a comes strictly before b in code point order
StrLess(a, b) ==
    \E k \in 1..Len(b) :
        /\ k <= Len(a) + 1
        /\ \A j \in 1..(k - 1) : a[j] = b[j]
        /\ (k = Len(a) + 1 \/ a[k] < b[k])

\* c1 does not come after c2 under the key (faculty, term, slot, title)
InOrder(c1, c2) ==
    \/ StrLess(c1.faculty, c2.faculty)
    \/ /\ c1.faculty = c2.faculty
       /\ \/ StrLess(c1.term, c2.term)
          \/ /\ c1.term = c2.term
             /\ \/ StrLess(c1.slot, c2.slot)
                \/ c1.slot = c2.slot /\ (StrLess(c1.title, c2.title) \/ c1.title = c2.title)

\* C8: no adjacent pair of a search result or of my page is out of order under
\* the key (faculty, term, slot, title).
C8_Sorted ==
    /\ last.op = "index"
         => \A i \in 1..(Len(resp.rows) - 1) : InOrder(resp.rows[i].c, resp.rows[i + 1].c)
    /\ last.op = "mypage"
         => \A i \in 1..(Len(resp.rows) - 1) : InOrder(resp.rows[i], resp.rows[i + 1])

\* my page lists three courses, not in the order they were stored
C8_Witness ==
    /\ last.op = "mypage"
    /\ Len(resp.rows) >= 3
    /\ \E i \in 1..(Len(resp.rows) - 1) : resp.rows[i].id > resp.rows[i + 1].id

\* the position in the seeding history of the first row with code c
FirstWith(c) == CHOOSE i \in DOMAIN ingested :
                    ingested[i].code = c /\ \A j \in 1..(i - 1) : ingested[j].code # c

\* C9: no two stored courses share a present code, and for every present code
\* ever seeded the stored course is the first row seeded with it, unmodified.
C9_FirstWriteWins ==
    /\ \A c1, c2 \in courses : (c1.code # NULL /\ c1.code = c2.code) => c1 = c2
    /\ \A i \in DOMAIN ingested :
          ingested[i].code # NULL
             => LET r == ingested[FirstWith(ingested[i].code)]
                IN \E c \in courses :
                      /\ c.id = FirstWith(ingested[i].code)
                      /\ c.code = r.code /\ c.title = r.title /\ c.term = r.term
                      /\ c.instructor = r.instructor /\ c.faculty = r.faculty
                      /\ c.slot = r.slot /\ c.eval = r.eval

\* a later row with a stored code and another title was seeded and dropped
C9_Witness ==
    \E i, j \in DOMAIN ingested :
        /\ i < j
        /\ ingested[i].code # NULL
        /\ ingested[i].code = ingested[j].code
        /\ ingested[i].title # ingested[j].title
        /\ \A c \in courses : c.id # j

\* the stored courses whose id is a favorite
FavoritedCourses == {c \in courses : \E f \in favorites : f.course_id = c.id}

\* C10: my page returns exactly the stored courses whose id is a favorite, each
\* once; an unfiltered search flags exactly those; and each of the two agrees
\* with what the other returns in the same state.
C10_FavoritesAgree ==
    /\ last.op = "mypage"
         => /\ Range(resp.rows) = FavoritedCourses
            /\ Len(resp.rows) = Cardinality(FavoritedCourses)
            /\ Range(resp.rows)
                 = {e.c : e \in {x \in Range(Enriched(SelectCourses(courses, NoFilter), favorites)) :
                                    x.is_fav}}
    /\ (last.op = "index" /\ last.arg = NoFilter)
         => /\ {e.c : e \in {x \in Range(resp.rows) : x.is_fav}} = FavoritedCourses
            /\ {e.c : e \in {x \in Range(resp.rows) : x.is_fav}}
                 = Range(JoinFavorites(courses, favorites))

\* my page lists a course while a favorite of an id without a course exists
C10_Witness ==
    /\ last.op = "mypage"
    /\ resp.rows # <<>>
    /\ \E f \in favorites : \A c \in courses : c.id # f.course_id
    /\ \E c \in courses : \A f \in favorites : f.course_id # c.id

====
